---- MODULE Spec2Model ----
(***************************************************************************)
(* Leftover: a 6x6 block-placement puzzle.  The module models the rules    *)
(* engine (src/utils/gameLogic.ts), the shape catalog (src/constants.ts)   *)
(* and the game session kept by the App component (src/unnamed/part_000,   *)
(* with the pointer gestures of the Block component, src/unnamed/part_001).*)
(*                                                                         *)
(* Representation.  A cell is a record [status, color, blockId]; the       *)
(* optional fields of CellData are NoColor / NoId when undefined.  The     *)
(* constant React key `id` of a cell is a function of its position and is  *)
(* left out.  A grid is indexed grid[y][x] as in the code.  Block ids are  *)
(* positive integers (the code draws 9 random base-36 characters; the      *)
(* model draws a number never used before), NoId = 0 is `undefined`.       *)
(***************************************************************************)
EXTENDS Integers, Sequences, FiniteSets, TLC

(***************************************************************************)
(* Program constants                                                       *)
(***************************************************************************)
GRID_SIZE == 6

JUNK_COLOR == "#475569"

BLOCK_COLORS ==
  << "#ef4444", "#f97316", "#eab308", "#22c55e",
     "#06b6d4", "#3b82f6", "#a855f7", "#ec4899" >>

NoColor == "undefined"

NoId == 0

C(x, y) == [x |-> x, y |-> y]

\* The catalog's templates (the unused `probability` weight is left out).
SHAPES ==
  << << C(0,0) >>,
     << C(0,0), C(1,0) >>,
     << C(0,0), C(0,1) >>,
     << C(0,0), C(1,1) >>,
     << C(0,0), C(1,0), C(2,0) >>,
     << C(0,0), C(0,1), C(0,2) >>,
     << C(0,0), C(1,0), C(0,1) >>,
     << C(0,0), C(1,0), C(1,1) >>,
     << C(0,0), C(0,1), C(1,1) >>,
     << C(1,0), C(0,1), C(1,1) >> >>

Idx == 0 .. (GRID_SIZE - 1)

EmptyCell == [status |-> "empty", color |-> NoColor, blockId |-> NoId]

\* A grid is an array of row arrays: the value holding the elements of g,
\* row by row and cell by cell.
ArrayOfRows(g) ==
  LET rows == [y \in DOMAIN g |-> g[y] @@ g[y]] IN rows @@ rows

createEmptyGrid == ArrayOfRows([y \in Idx |-> [x \in Idx |-> EmptyCell]])

(***************************************************************************)
(* rotateBlockDefinition                                                   *)
(***************************************************************************)
\* Mutant: the first coordinate is taken for the least.
MinOf_First(s) == s[1]

RECURSIVE MinOf(_)
MinOf(s) ==
  IF Len(s) = 1 THEN s[1]
  ELSE LET m == MinOf(Tail(s)) IN IF s[1] < m THEN s[1] ELSE m

\* The comparator of the sort: (a.y - b.y) || (a.x - b.x), negative when a
\* goes first.
CellCompare(a, b) == IF a.y - b.y # 0 THEN a.y - b.y ELSE a.x - b.x

RECURSIVE InsertCell(_, _)
InsertCell(c, s) ==
  IF s = << >> THEN << c >>
  ELSE IF CellCompare(c, s[1]) < 0 THEN << c >> \o s
  ELSE << s[1] >> \o InsertCell(c, Tail(s))

\* Array.prototype.sort is stable: an element goes after its equals.
RECURSIVE SortCells(_)
SortCells(s) ==
  IF s = << >> THEN << >>
  ELSE InsertCell(s[Len(s)], SortCells(SubSeq(s, 1, Len(s) - 1)))

\* Mutant: y is copied instead of taken from x.
RotateCell_KeepsY(cell) == [x |-> 0 - cell.y, y |-> cell.y]

RotateCell(cell) == [x |-> 0 - cell.y, y |-> cell.x]

rotateBlockDefinition(block) ==
  LET rotatedCells == [i \in DOMAIN block.cells |-> RotateCell(block.cells[i])]
      minX == MinOf([i \in DOMAIN rotatedCells |-> rotatedCells[i].x])
      minY == MinOf([i \in DOMAIN rotatedCells |-> rotatedCells[i].y])
      normalizedCells ==
        [i \in DOMAIN rotatedCells |->
           [x |-> rotatedCells[i].x - minX, y |-> rotatedCells[i].y - minY]]
  IN  [block EXCEPT !.cells = SortCells(normalizedCells)]

(***************************************************************************)
(* canPlaceBlock: the loop over block.cells with its two early returns.    *)
(***************************************************************************)
OutOfBounds(x, y) == x < 0 \/ x >= GRID_SIZE \/ y < 0 \/ y >= GRID_SIZE

\* Mutant: junk is taken for free space.
Collision_FilledOnly(grid, x, y) == grid[y][x].status = "filled"

Collision(grid, x, y) == grid[y][x].status # "empty"

RECURSIVE CanPlaceFrom(_, _, _, _, _)
CanPlaceFrom(grid, cells, targetX, targetY, i) ==
  IF i > Len(cells) THEN TRUE
  ELSE LET x == targetX + cells[i].x
           y == targetY + cells[i].y
       IN  IF OutOfBounds(x, y) THEN FALSE
           ELSE IF Collision(grid, x, y) THEN FALSE
           ELSE CanPlaceFrom(grid, cells, targetX, targetY, i + 1)

canPlaceBlock(grid, block, targetX, targetY) ==
  CanPlaceFrom(grid, block.cells, targetX, targetY, 1)

(***************************************************************************)
(* canPlaceAny / canPlaceInAnyOrientation                                  *)
(***************************************************************************)
\* The loop over the 4 rotations; the two inner loops return at the first
\* anchor canPlaceBlock accepts.
RECURSIVE OrientationFrom(_, _, _)
OrientationFrom(grid, currentBlock, i) ==
  IF i >= 4 THEN FALSE
  ELSE IF \E y \in 0 .. (GRID_SIZE - 1), x \in 0 .. (GRID_SIZE - 1) :
            canPlaceBlock(grid, currentBlock, x, y)
       THEN TRUE
       ELSE OrientationFrom(grid, rotateBlockDefinition(currentBlock), i + 1)

\* Mutant: only the orientation the block is held in is tried.
canPlaceInAnyOrientation_HeldOnly(grid, block) ==
  \E y \in 0 .. (GRID_SIZE - 1), x \in 0 .. (GRID_SIZE - 1) :
    canPlaceBlock(grid, block, x, y)

canPlaceInAnyOrientation(grid, block) == OrientationFrom(grid, block, 0)

\* Mutant: only the first shape of the hand is tried.
canPlaceAny_FirstOnly(grid, hand) ==
  IF Len(hand) = 0 THEN TRUE
  ELSE canPlaceInAnyOrientation(grid, hand[1])

canPlaceAny(grid, hand) ==
  IF Len(hand) = 0 THEN TRUE
  ELSE \E k \in DOMAIN hand : canPlaceInAnyOrientation(grid, hand[k])

(***************************************************************************)
(* placeBlockAndProcess                                                    *)
(***************************************************************************)
\* Mutant: the stamp forgets the shape's id.
StampCell_NoOwner(cell, block) ==
  [cell EXCEPT !.status = "filled", !.color = block.color]

\* Mutant: the stamp forgets the color.
StampCell_NoColor(cell, block) ==
  [cell EXCEPT !.status = "filled", !.blockId = block.id]

\* Step 2: one stamped cell, { ...cell, status, color, blockId }.
StampCell(cell, block) ==
  [cell EXCEPT !.status = "filled", !.color = block.color, !.blockId = block.id]

\* A row is a JavaScript array: writing index x >= 6 makes the row longer,
\* with holes at the indices never written.
Hole == [status |-> "hole", color |-> NoColor, blockId |-> NoId]

\* newGrid[y][x] = { ...newGrid[y][x], status, color, blockId } for a row y
\* that exists.  An index x < 0 sets a property that no array method, copy
\* or JSON.stringify reads: the write is lost.
WriteCell(row, x, block) ==
  IF x < 0 THEN row
  ELSE IF x \in DOMAIN row
  THEN [row EXCEPT ![x] =
          StampCell(IF row[x].status = "hole" THEN EmptyCell ELSE row[x], block)]
  ELSE [xx \in 0 .. x |->
          IF xx \in DOMAIN row THEN row[xx]
          ELSE IF xx = x THEN StampCell(EmptyCell, block)
          ELSE Hole]

\* Reading newGrid[y][x] in a row that does not exist throws a TypeError.
Throws(block, targetX, targetY) ==
  \E i \in DOMAIN block.cells :
    targetY + block.cells[i].y < 0 \/ targetY + block.cells[i].y >= GRID_SIZE

\* Step 2: the loop over block.cells.  The function does not re-validate:
\* a target cell is overwritten whatever it held.  (Callers reach the loop
\* only when Throws is false.)
RECURSIVE StampFrom(_, _, _, _, _)
StampFrom(g, block, targetX, targetY, i) ==
  IF i > Len(block.cells) THEN g
  ELSE LET x == targetX + block.cells[i].x
           y == targetY + block.cells[i].y
           g2 == IF y \in DOMAIN g
                 THEN [g EXCEPT ![y] = WriteCell(g[y], x, block)]
                 ELSE g
       IN  StampFrom(g2, block, targetX, targetY, i + 1)

\* Mutant: only filled cells count towards a full row.
RowIsFull_FilledOnly(g, y) ==
  \A x \in DOMAIN g[y] : g[y][x].status \in {"filled", "hole"}

\* Step 3: newGrid[y].every(cell => cell.status !== 'empty'); every() skips
\* the holes of the array.
RowIsFull(g, y) == \A x \in DOMAIN g[y] : g[y][x].status # "empty"

\* Step 3: newGrid.every(row => row[x].status !== 'empty')
ColIsFull(g, x) == \A y \in Idx : g[y][x].status # "empty"

FullRows(g) == {y \in Idx : RowIsFull(g, y)}

FullCols(g) == {x \in Idx : ColIsFull(g, x)}

\* Step 5: the "x,y" keys of the cells of the full lines.
ClearedCells(rows, cols) ==
  {p \in Idx \X Idx : p[2] \in rows \/ p[1] \in cols}

\* Step 4: every truthy blockId found on a cell of a full line.  The row
\* scan is newGrid[y].forEach: it visits every element of the row.
AffectedBlockIds(g, rows, cols) ==
  {g[p[2]][p[1]].blockId :
     p \in {q \in UNION {{<< x, y >> : x \in DOMAIN g[y]} : y \in Idx} :
              /\ q[2] \in rows \/ q[1] \in cols
              /\ g[q[2]][q[1]].blockId # NoId}}

\* Mutant: the filled cells of a cleared line are turned to junk.
UpdateKind_JunksLine(cell, isComputableLine, affectedBlockIds) ==
  IF cell.status = "junk" THEN "keep"
  ELSE IF cell.status = "filled"
       THEN IF isComputableLine THEN "junk"
            ELSE IF cell.blockId # NoId /\ cell.blockId \in affectedBlockIds
                 THEN "junk"
                 ELSE "keep"
       ELSE "keep"

\* Mutant: the cells of a hit shape outside the lines are left as they are.
UpdateKind_NoLeftover(cell, isComputableLine, affectedBlockIds) ==
  IF cell.status = "filled" /\ isComputableLine THEN "empty" ELSE "keep"

\* Mutant: junk inside a cleared line is cleared with the line.
UpdateKind_ClearsJunk(cell, isComputableLine, affectedBlockIds) ==
  IF cell.status = "junk"
  THEN IF isComputableLine THEN "empty" ELSE "keep"
  ELSE IF cell.status = "filled"
       THEN IF isComputableLine THEN "empty"
            ELSE IF cell.blockId # NoId /\ cell.blockId \in affectedBlockIds
                 THEN "junk"
                 ELSE "keep"
       ELSE "keep"

\* Step 5: the update pushed for one cell: "keep" (no update), "empty" or
\* "junk".
UpdateKind(cell, isComputableLine, affectedBlockIds) ==
  IF cell.status = "junk" THEN "keep"
  ELSE IF cell.status = "filled"
       THEN IF isComputableLine THEN "empty"
            ELSE IF cell.blockId # NoId /\ cell.blockId \in affectedBlockIds
                 THEN "junk"
                 ELSE "keep"
       ELSE "keep"

\* Mutant: a cell turned to junk keeps the id of the shape it came from.
ApplyUpdate_JunkKeepsOwner(cell, kind) ==
  IF kind = "empty"
  THEN [cell EXCEPT !.status = "empty", !.color = NoColor, !.blockId = NoId]
  ELSE IF kind = "junk"
  THEN [cell EXCEPT !.status = "junk", !.color = JUNK_COLOR]
  ELSE cell

\* Apply updates: { ...cell, status: u.status, color: u.color, blockId: undefined }
ApplyUpdate(cell, kind) ==
  IF kind = "empty"
  THEN [cell EXCEPT !.status = "empty", !.color = NoColor, !.blockId = NoId]
  ELSE IF kind = "junk"
  THEN [cell EXCEPT !.status = "junk", !.color = JUNK_COLOR, !.blockId = NoId]
  ELSE cell

\* Mutant: a clean clear starts the streak over instead of extending it.
ComboAfterClear_Restart(junkCreated, currentCombo) ==
  IF junkCreated = 0 THEN 1 ELSE 0

\* Mutant: the streak goes on although junk was created.
ComboAfterClear_IgnoresJunk(junkCreated, currentCombo) == currentCombo + 1

\* Determine Combo.
ComboAfterClear(junkCreated, currentCombo) ==
  IF junkCreated = 0 THEN currentCombo + 1 ELSE 0

\* Mutant: the streak bonus is paid from the first clear on.
ClearPoints_BonusFromOne(linesCleared, junkCreated, newCombo) ==
  linesCleared * 100
  + (IF junkCreated = 0 THEN 50 * linesCleared ELSE 0)
  + (IF newCombo > 0 THEN newCombo * 100 ELSE 0)

\* Base points, clean bonus and combo bonus of a clearing placement.
ClearPoints(linesCleared, junkCreated, newCombo) ==
  linesCleared * 100
  + (IF junkCreated = 0 THEN 50 * linesCleared ELSE 0)
  + (IF newCombo > 1 THEN (newCombo - 1) * 100 ELSE 0)

\* Points of a placement that clears nothing.
PlacePoints(block) == Len(block.cells) * 10

placeBlockAndProcess(currentGrid, block, targetX, targetY, currentCombo) ==
  LET stamped == StampFrom(currentGrid, block, targetX, targetY, 1)
      fullRows == FullRows(stamped)
      fullCols == FullCols(stamped)
      linesCleared == Cardinality(fullRows) + Cardinality(fullCols)
      affectedBlockIds == AffectedBlockIds(stamped, fullRows, fullCols)
      clearedCells == ClearedCells(fullRows, fullCols)
      kind == [y \in Idx |-> [x \in Idx |->
                 UpdateKind(stamped[y][x], <<x, y>> \in clearedCells,
                            affectedBlockIds)]]
      junkCreated == Cardinality({p \in Idx \X Idx : kind[p[2]][p[1]] = "junk"})
      cleared == [y \in Idx |-> [x \in DOMAIN stamped[y] |->
                    IF x \in Idx THEN ApplyUpdate(stamped[y][x], kind[y][x])
                    ELSE stamped[y][x]]]
      newCombo == ComboAfterClear(junkCreated, currentCombo)
  IN  IF linesCleared > 0
      THEN [newGrid |-> ArrayOfRows(cleared),
            linesCleared |-> linesCleared,
            junkCreated |-> junkCreated,
            points |-> ClearPoints(linesCleared, junkCreated, newCombo),
            newCombo |-> newCombo]
      ELSE [newGrid |-> ArrayOfRows(stamped),
            linesCleared |-> 0,
            junkCreated |-> 0,
            points |-> PlacePoints(block),
            newCombo |-> 0]

(***************************************************************************)
(* Bounds of the model                                                     *)
(***************************************************************************)
\* Anchors are tried from MaxOff cells outside the board on every side.
MaxOff == 1

\* comboIn of a direct call ranges over 0 .. MaxCombo.
MaxCombo == 2

\* Blocks are drawn in the first NumColors colors of the palette.
NumColors == 1

\* The session makes at most MaxDrops drops (handleDragEnd with a ghost).
MaxDrops == 1

\* The session draws at most MaxDraws hands after the one it starts with.
MaxDraws == 1

\* The session takes at most MaxTaps taps (handleRotate).
MaxTaps == 1

(***************************************************************************)
(* generateHand                                                            *)
(***************************************************************************)
\* The templates and colors the draws of a session are taken from.
HandShapes == {1, 2}

HandColors == {1}

\* The hands generateHand(count, difficulty) can return when the ids drawn
\* are firstId, firstId + 1, ...: each block a template and a color picked
\* at random (difficulty is not used by the code).
RECURSIVE GenerateHand(_, _)
GenerateHand(count, firstId) ==
  IF count = 0 THEN {<< >>}
  ELSE {Append(h, [id |-> firstId + count - 1, cells |-> SHAPES[s],
                   color |-> BLOCK_COLORS[c]]) :
          h \in GenerateHand(count - 1, firstId),
          s \in HandShapes, c \in HandColors}

(***************************************************************************)
(* The session's handlers as functions of the App state.  A session state  *)
(* is a record [grid, score, hand, turn, combo, isGameOver, history].      *)
(***************************************************************************)
\* currentStateSnapshot of handleDragEnd.
Snapshot(st) ==
  [grid |-> st.grid, score |-> st.score, hand |-> st.hand, turn |-> st.turn,
   isGameOver |-> st.isGameOver, combo |-> st.combo]

\* prev.slice(-19)
Last19(prev) ==
  IF Len(prev) <= 19 THEN prev ELSE SubSeq(prev, Len(prev) - 18, Len(prev))

\* [...prev.slice(-19), currentStateSnapshot]
PushHistory(prev, snapshot) == Append(Last19(prev), snapshot)

RECURSIVE FilterOut(_, _)
\* hand.filter(b => b.id !== id)
FilterOut(h, id) ==
  IF h = << >> THEN << >>
  ELSE IF h[1].id # id THEN << h[1] >> \o FilterOut(Tail(h), id)
  ELSE FilterOut(Tail(h), id)

\* Mutant: the game-over test looks at the hand left after the filter, not
\* at the hand drawn to replace it.
PlacementOutcome_StaleHand(st, block, x, y, nextHand) ==
  LET r == placeBlockAndProcess(st.grid, block, x, y, st.combo)
      newHand == FilterOut(st.hand, block.id)
      refill == Len(newHand) = 0
  IN  [grid |-> r.newGrid,
       score |-> st.score + r.points,
       hand |-> IF refill THEN nextHand ELSE newHand,
       turn |-> IF refill THEN st.turn + 1 ELSE st.turn,
       combo |-> r.newCombo,
       isGameOver |-> IF ~canPlaceAny(r.newGrid, newHand) THEN TRUE
                      ELSE st.isGameOver,
       history |-> PushHistory(st.history, Snapshot(st))]

\* handleDragEnd with a drag block and a ghost position, when
\* placeBlockAndProcess returns: the state after the placement.  nextHand
\* is the hand generateHand returns if the hand is refilled.
PlacementOutcome(st, block, x, y, nextHand) ==
  LET r == placeBlockAndProcess(st.grid, block, x, y, st.combo)
      newHand == FilterOut(st.hand, block.id)
      refill == Len(newHand) = 0
      heldHand == IF refill THEN nextHand ELSE newHand
  IN  [grid |-> r.newGrid,
       score |-> st.score + r.points,
       hand |-> heldHand,
       turn |-> IF refill THEN st.turn + 1 ELSE st.turn,
       combo |-> r.newCombo,
       isGameOver |-> IF ~canPlaceAny(r.newGrid, heldHand) THEN TRUE
                      ELSE st.isGameOver,
       history |-> PushHistory(st.history, Snapshot(st))]

\* The state startNewGame sets.
NewGameState(newHand) ==
  [grid |-> createEmptyGrid, score |-> 0, hand |-> newHand, turn |-> 1,
   combo |-> 0, isGameOver |-> FALSE, history |-> << >>]

(***************************************************************************)
(* Sessions of earlier play.  A script is a list of placements, each a     *)
(* catalog template, an anchor and a palette color.  The i-th block drawn  *)
(* has id i; the hands are drawn three blocks at a time and placed in the  *)
(* order drawn, untouched by rotation.  Blocks drawn beyond the script's   *)
(* end follow FillShapes.  The session after the first n placements is     *)
(* computed by the handlers above; a script counts only if canPlaceBlock   *)
(* accepts each of its placements.                                         *)
(***************************************************************************)
P(s, x, y, c) == [s |-> s, x |-> x, y |-> y, c |-> c]

Scripts ==
  << \* a row and a column that one cell completes together
     << P(5, 0, 0, 2), P(2, 3, 0, 3), P(6, 5, 1, 4), P(3, 5, 4, 5) >>,
     \* a row cleared with two straddlers, then a row holding their junk
     << P(3, 0, 0, 2), P(5, 1, 0, 3), P(7, 4, 0, 4),
        P(5, 1, 1, 5), P(4, 2, 2, 6) >>,
     \* a column cleared with a straddler, then a column holding its junk
     << P(2, 2, 0, 2), P(6, 2, 1, 3), P(3, 2, 4, 4),
        P(6, 3, 1, 5), P(1, 3, 4, 6) >>,
     \* a row that one cell completes, with a straddler in it
     << P(3, 0, 0, 2), P(5, 1, 0, 3), P(1, 4, 0, 7) >>,
     \* two rows a cell short, completed one after the other
     << P(5, 0, 0, 2), P(2, 3, 0, 3), P(5, 0, 1, 4), P(2, 3, 1, 5),
        P(1, 5, 0, 6), P(1, 5, 1, 7) >>,
     \* a row two cells short that no shape straddles
     << P(2, 0, 0, 2), P(2, 2, 0, 3) >>,
     \* a row cleared with two straddlers, then the row holding their junk
     \* completed and cleared in its turn
     << P(3, 0, 0, 2), P(5, 1, 0, 3), P(7, 4, 0, 4),
        P(5, 1, 1, 5), P(1, 5, 1, 6) >>,
     \* a row that one cell completes, with a straddler in it and a shape
     \* away from it
     << P(3, 0, 0, 2), P(5, 1, 0, 3), P(1, 4, 0, 7), P(2, 2, 3, 4) >> >>

FillShapes == << 1, 1, 2 >>

\* The i-th block the scripted session draws.
Drawn(script, i) ==
  IF i <= Len(script)
  THEN [id |-> i, cells |-> SHAPES[script[i].s],
        color |-> BLOCK_COLORS[script[i].c]]
  ELSE [id |-> i, cells |-> SHAPES[FillShapes[((i - 1) % 3) + 1]],
        color |-> BLOCK_COLORS[1]]

\* The hand drawn for turn t (t = 1, 2, ...).
DrawnHand(script, t) ==
  << Drawn(script, 3 * t - 2), Drawn(script, 3 * t - 1), Drawn(script, 3 * t) >>

RECURSIVE RunScript(_, _)
RunScript(script, n) ==
  IF n = 0
  THEN [st |-> NewGameState(DrawnHand(script, 1)), ok |-> TRUE]
  ELSE LET before == RunScript(script, n - 1)
           p == script[n]
           block == Drawn(script, n)
       IN  IF /\ before.ok
              /\ ~before.st.isGameOver
              /\ canPlaceBlock(before.st.grid, block, p.x, p.y)
           THEN [st |-> PlacementOutcome(before.st, block, p.x, p.y,
                                         DrawnHand(script, before.st.turn + 1)),
                 ok |-> TRUE]
           ELSE [st |-> before.st, ok |-> FALSE]

ScriptRuns ==
  UNION {{RunScript(Scripts[k], n) : n \in 0 .. Len(Scripts[k])} :
           k \in DOMAIN Scripts}

\* The sessions reached by the scripts.
Played == {run.st : run \in {r \in ScriptRuns : r.ok}}

Boards == {st.grid : st \in Played}

(***************************************************************************)
(* State                                                                   *)
(***************************************************************************)
VARIABLES
  grid,           \* App state: the board
  score,          \* App state
  hand,           \* App state: sequence of blocks
  turn,           \* App state
  combo,          \* App state
  isGameOver,     \* App state
  history,        \* App state: sequence of HistoryState snapshots
  dragBlock,      \* App state: << >> (null) or << block >>
  ghostPosition,  \* App state: << >> (null) or << [x, y] >>
  save,           \* localStorage 'leftover_save': << >> or << saved state >>
  nextId,         \* the next block id generateHand draws
  drops,          \* drops made so far (bounds the exploration)
  draws,          \* hands drawn so far (bounds the exploration)
  taps,           \* taps taken so far (bounds the exploration)
  stampedIds,     \* the blockIds the placements so far stamped, in order
  pending,        \* the blocks pressed and not released, in the order pressed
  fingers,        \* the pointers of the device: 1 (a mouse) or more (a touch screen)
  call,           \* rules engine called directly: the arguments
  placeable,      \* ... what canPlaceBlock returned: "unchecked", "yes", "no"
  result,         \* ... what placeBlockAndProcess returned: << >> or << r >>
  mem             \* the objects of the boards kept while placements go on

sessionVars ==
  << grid, score, hand, turn, combo, isGameOver, history, dragBlock,
     ghostPosition, save, nextId, drops, draws, taps, stampedIds, pending,
     fingers >>

coreVars == << call, placeable, result, mem >>

vars == << sessionVars, coreVars >>

\* The App component's state as useState constructs it.
SessionConstructed ==
  /\ grid = createEmptyGrid
  /\ score = 0
  /\ hand = << >>
  /\ turn = 1
  /\ combo = 0
  /\ isGameOver = FALSE
  /\ history = << >>
  /\ dragBlock = << >>
  /\ ghostPosition = << >>
  /\ save = << >>
  /\ nextId = 1
  /\ drops = 0
  /\ draws = 0
  /\ taps = 0
  /\ stampedIds = << >>
  /\ pending = << >>
  /\ fingers = 1

(***************************************************************************)
(* The rules engine called directly, as its contract describes: a caller   *)
(* holds a board and a shape, may rotate the shape, asks canPlaceBlock for *)
(* an anchor, and calls placeBlockAndProcess only after canPlaceBlock      *)
(* returned true.                                                          *)
(***************************************************************************)
Anchors == (0 - MaxOff) .. (GRID_SIZE - 1 + MaxOff)

\* The id of the shape a direct call places: none of the script's ids.
CallId == 9

CoreInit ==
  /\ SessionConstructed
  /\ \E b \in Boards, s \in DOMAIN SHAPES, c \in 1 .. NumColors :
       call = [board |-> b,
               block |-> [id |-> CallId, cells |-> SHAPES[s],
                          color |-> BLOCK_COLORS[c]],
               x |-> 0, y |-> 0, comboIn |-> 0]
  /\ placeable = "unchecked"
  /\ result = << >>
  /\ mem = << >>

CoreRotate ==
  /\ placeable = "unchecked"
  /\ call' = [call EXCEPT !.block = rotateBlockDefinition(call.block)]
  /\ UNCHANGED << placeable, result, mem, sessionVars >>

CoreCanPlace ==
  /\ placeable = "unchecked"
  /\ \E x \in Anchors, y \in Anchors :
       /\ call' = [call EXCEPT !.x = x, !.y = y]
       /\ placeable' =
            IF canPlaceBlock(call.board, call.block, x, y) THEN "yes" ELSE "no"
  /\ UNCHANGED << result, mem, sessionVars >>

CoreApply ==
  /\ placeable = "yes"
  /\ result = << >>
  /\ \E c \in 0 .. MaxCombo :
       /\ call' = [call EXCEPT !.comboIn = c]
       /\ result' =
            << placeBlockAndProcess(call.board, call.block, call.x, call.y, c) >>
  /\ UNCHANGED << placeable, mem, sessionVars >>

CoreNext == CoreRotate \/ CoreCanPlace \/ CoreApply

SpecCore == CoreInit /\ [][CoreNext]_vars

(***************************************************************************)
(* The game session: the App component's handlers, one action each.  An    *)
(* action is the handler followed by the render and the save effect.       *)
(***************************************************************************)
Session ==
  [grid |-> grid, score |-> score, hand |-> hand, turn |-> turn,
   combo |-> combo, isGameOver |-> isGameOver, history |-> history]

SetSession(st) ==
  /\ grid' = st.grid
  /\ score' = st.score
  /\ hand' = st.hand
  /\ turn' = st.turn
  /\ combo' = st.combo
  /\ isGameOver' = st.isGameOver
  /\ history' = st.history

IsSession(st) ==
  /\ grid = st.grid
  /\ score = st.score
  /\ hand = st.hand
  /\ turn = st.turn
  /\ combo = st.combo
  /\ isGameOver = st.isGameOver
  /\ history = st.history

\* The save effect's condition.
Saveable(st) ==
  \/ \E y \in DOMAIN st.grid : \E x \in DOMAIN st.grid[y] :
       st.grid[y][x].status # "empty"
  \/ st.score > 0
  \/ st.turn > 1

\* JSON.parse(JSON.stringify(grid)): a hole of a row array is written as
\* null; a property holding undefined is left out and reads as undefined
\* again.
NullCell == [status |-> "null", color |-> NoColor, blockId |-> NoId]

JsonGrid(g) ==
  ArrayOfRows([y \in DOMAIN g |-> [x \in DOMAIN g[y] |->
     IF g[y][x].status = "hole" THEN NullCell ELSE g[y][x]]])

\* JSON.parse(JSON.stringify(stateToSave))
JsonState(st) ==
  [st EXCEPT
     !.grid = JsonGrid(st.grid),
     !.history = [i \in DOMAIN st.history |->
                    [st.history[i] EXCEPT !.grid = JsonGrid(st.history[i].grid)]]]

\* The save effect after a render of state st, stored holding `stored`.
SaveEffect(st, stored) == IF Saveable(st) THEN << JsonState(st) >> ELSE stored

\* The mount effect found no save: startNewGame.
InitNew ==
  /\ \E h \in GenerateHand(3, 1) : IsSession(NewGameState(h))
  /\ save = << >>
  /\ nextId = 4
  /\ stampedIds = << >>

\* The saves a session finds: script k stopped after n placements, for
\* the pairs << k, n >> of SavePoints.
SavePoints == {<< 1, 4 >>, << 2, 4 >>, << 4, 3 >>, << 5, 5 >>}

\* A crowded board: ten blocks cover every cell but (2,0), (0,1), (4,2),
\* (1,3), (5,4), (3,5), (0,5) and (5,0), no two of which are neighbours, so
\* no row or column is ever completed.  The tenth block has template
\* `tenth`: template 9 covers (4,4), (4,5), (5,5), template 3 leaves (5,5)
\* empty below (5,4).  The eleventh block drawn is a single cell, the
\* twelfth has template `last`.
CrowdScript(tenth, last) ==
  << P(8, 0, 0, 1), P(7, 3, 0, 2), P(8, 4, 1, 3),
     P(6, 2, 1, 4), P(7, 0, 2, 5), P(9, 3, 2, 6),
     P(1, 5, 3, 7), P(8, 0, 4, 8), P(7, 2, 4, 1),
     P(tenth, 4, 4, 2), P(1, 0, 5, 3), P(last, 5, 0, 4) >>

\* The crowded sessions a save is taken from: one block left in the hand,
\* a single cell; two blocks left, a single cell and a domino, the domino
\* fitting nowhere or fitting only when rotated.
CrowdRuns ==
  {RunScript(CrowdScript(9, 1), 11),
   RunScript(CrowdScript(9, 2), 10),
   RunScript(CrowdScript(3, 2), 10)}

\* A long play: row 0 filled by two horizontal trominoes and cleared,
\* eleven times over.
LongScript ==
  [i \in 1 .. 22 |-> P(5, IF i % 2 = 1 THEN 0 ELSE 3, 0, (i % 8) + 1)]

\* The long session a save is taken from: 21 placements, so that the
\* history has dropped its oldest snapshot.
LongRuns == {RunScript(LongScript, 21)}

\* A streak under way: rows 0 and 1 a cell short each, two single cells
\* away from them, then row 0 completed by the first block of the third
\* hand.  The hand still holds a single cell and a domino, the counter is 1.
StreakScript ==
  << P(5, 0, 0, 2), P(2, 3, 0, 3), P(5, 0, 1, 4), P(2, 3, 1, 5),
     P(1, 0, 3, 6), P(1, 2, 3, 7), P(1, 5, 0, 8) >>

StreakRuns == {RunScript(StreakScript, 7)}

\* The sessions found saved.
SavedBy(runs) == {run.st : run \in {r \in runs : r.ok /\ Saveable(r.st)}}

Saves ==
  SavedBy({RunScript(Scripts[p[1]], p[2]) : p \in SavePoints}
            \cup CrowdRuns \cup StreakRuns)

\* The mount effect found the save an earlier session left.
InitLoaded(saved) ==
  /\ \E st \in saved :
       /\ IsSession(st)
       /\ save = << st >>
       /\ nextId = 3 * st.turn + 1
       \* the earlier session placed the blocks it drew in the order drawn
       /\ stampedIds = [i \in 1 .. Len(st.history) |-> i]

\* Nothing is pressed or dragged when the App is mounted.
Mounted ==
  /\ dragBlock = << >>
  /\ ghostPosition = << >>
  /\ pending = << >>
  /\ drops = 0
  /\ taps = 0
  /\ call = << >>
  /\ placeable = "unchecked"
  /\ result = << >>
  /\ mem = << >>

\* A session played with a mouse, the buttons reached from the keyboard
\* as well.
Init ==
  /\ InitNew \/ InitLoaded(Saves)
  /\ fingers = 1
  /\ draws = 0
  /\ Mounted

(***************************************************************************)
(* The pointer on the blocks of the hand.  Block.handleStart registers a   *)
(* move listener and an end listener on the window, whatever the pointer;  *)
(* every move event runs the move listeners of all the blocks pressed and  *)
(* not yet released, in the order pressed, and every end event runs their  *)
(* end listeners and removes them.  A listener calls the handlers of the   *)
(* last render of its Block (callbacksRef): the handlers of the last       *)
(* render of the App while the Block is in the hand, and those of the last *)
(* render before the Block left the hand afterwards.  The state updates of *)
(* the handlers one event runs are applied together, in the order made.    *)
(***************************************************************************)
\* The state a render of the App closes its handlers over.
Closure ==
  [grid |-> grid, score |-> score, hand |-> hand, turn |-> turn,
   combo |-> combo, isGameOver |-> isGameOver, dragBlock |-> dragBlock,
   ghostPosition |-> ghostPosition]

\* The App state while the handlers of one event run, with what they did.
Queue ==
  [grid |-> grid, score |-> score, hand |-> hand, turn |-> turn,
   combo |-> combo, isGameOver |-> isGameOver, history |-> history,
   dragBlock |-> dragBlock, ghostPosition |-> ghostPosition,
   held |-> << >>, refills |-> 0, stamps |-> << >>, tapsDone |-> 0,
   dropsDone |-> 0]

HandIds(h) == {h[i].id : i \in DOMAIN h}

\* The blocks pressed when the hand becomes newHand: a Block whose block
\* (its key) is no longer in the hand is unmounted and keeps the handlers
\* of the render before.
RECURSIVE Unmount(_, _, _)
Unmount(held, newHand, cl) ==
  IF held = << >> THEN << >>
  ELSE << IF held[1].view = << >> /\ held[1].block.id \notin HandIds(newHand)
          THEN [held[1] EXCEPT !.view = << cl >>]
          ELSE held[1] >>
       \o Unmount(Tail(held), newHand, cl)

\* A button is clicked from the keyboard, or with the mouse when no block
\* is pressed; on a touch screen the finger lifted from the button has run
\* the end listeners of the blocks pressed before the click.
Clickable == fingers > 1 => pending = << >>

\* startNewGame (the New Game button).
StartNewGame ==
  /\ Clickable
  /\ draws < MaxDraws
  /\ \E h \in GenerateHand(3, nextId) :
       /\ SetSession(NewGameState(h))
       /\ pending' = Unmount(pending, h, Closure)
  /\ nextId' = nextId + 3
  /\ draws' = draws + 1
  /\ save' = << >>
  /\ UNCHANGED << dragBlock, ghostPosition, drops, taps, stampedIds, fingers,
                  coreVars >>

\* handleUndo (the Undo button, disabled while the history is empty).
HandleUndo ==
  /\ Clickable
  /\ Len(history) # 0
  /\ LET previousState == history[Len(history)]
         st == [grid |-> previousState.grid,
                score |-> previousState.score,
                hand |-> previousState.hand,
                turn |-> previousState.turn,
                combo |-> previousState.combo,
                isGameOver |-> previousState.isGameOver,
                history |-> SubSeq(history, 1, Len(history) - 1)]
     IN  /\ SetSession(st)
         /\ save' = SaveEffect(st, save)
         /\ pending' = Unmount(pending, st.hand, Closure)
  /\ UNCHANGED << dragBlock, ghostPosition, nextId, drops, draws, taps,
                  stampedIds, fingers, coreVars >>

\* currentHand.map(b => b.id === block.id ? rotateBlockDefinition(b) : b)
\* Mutant: the map rotates every block of the hand.
RotateInHand_All(currentHand, id) ==
  [i \in DOMAIN currentHand |-> rotateBlockDefinition(currentHand[i])]

RECURSIVE RotateInHand(_, _)
RotateInHand(currentHand, id) ==
  IF currentHand = << >> THEN << >>
  ELSE << IF currentHand[1].id = id
          THEN rotateBlockDefinition(currentHand[1])
          ELSE currentHand[1] >>
       \o RotateInHand(Tail(currentHand), id)

\* handleRotate: the update is a function of the hand held when it is
\* applied.
HandleRotate(q, block) ==
  [q EXCEPT !.hand = RotateInHand(q.hand, block.id), !.tapsDone = @ + 1]

\* handleDragStart
HandleDragStart(q, block) == [q EXCEPT !.dragBlock = << block >>]

\* The anchors the pointer of a session is moved to: gridX, gridY of
\* handleDragMove, on the board and off it.
Hover == {C(0, 0), C(3, 0), C(5, 0), C(5, 1), C(0, 5), C(6, 0)}

\* handleDragMove of the render cl: the pointer is over the cell that makes
\* (p.x, p.y) the anchor.
HandleDragMove(q, cl, p) ==
  IF cl.dragBlock = << >> THEN q
  ELSE [q EXCEPT !.ghostPosition =
          IF canPlaceBlock(cl.grid, cl.dragBlock[1], p.x, p.y)
          THEN << [x |-> p.x, y |-> p.y] >>
          ELSE << >>]

\* What handleDragEnd of the render cl writes when the placement made st.
Written(q, cl, st) ==
  [q EXCEPT
     !.grid = st.grid, !.score = st.score, !.hand = st.hand,
     !.turn = st.turn, !.combo = st.combo,
     !.isGameOver = st.isGameOver,
     !.history = PushHistory(q.history, Snapshot(cl)),
     !.dragBlock = << >>, !.ghostPosition = << >>,
     !.refills = IF Len(FilterOut(cl.hand, cl.dragBlock[1].id)) = 0
                 THEN @ + 1 ELSE @,
     !.stamps = Append(@, cl.dragBlock[1].id),
     !.dropsDone = @ + 1]

\* handleDragEnd of the render cl with a drag block and a ghost: the
\* placement.  The board, the hand and the combo written are computed from
\* those of cl; the score and the turn are updated by functions of the
\* values held; the flag is only ever set.
DropPlaces(q, cl, nextHand) ==
  Written(q, cl,
          PlacementOutcome(
            [grid |-> cl.grid, score |-> q.score, hand |-> cl.hand,
             turn |-> q.turn, combo |-> cl.combo,
             isGameOver |-> q.isGameOver, history |-> q.history],
            cl.dragBlock[1], cl.ghostPosition[1].x, cl.ghostPosition[1].y,
            nextHand))

\* handleDragEnd of the render cl with a drag block and a ghost in a row
\* that does not exist: setHistory has been called when
\* placeBlockAndProcess throws, and nothing after it runs.
DropThrows(q, cl) ==
  [q EXCEPT !.history = PushHistory(q.history, Snapshot(cl)),
            !.dropsDone = @ + 1]

\* handleDragEnd without a drag block or without a ghost: the drag is
\* dropped.
DropCancels(q) == [q EXCEPT !.dragBlock = << >>, !.ghostPosition = << >>]

HandleDragEnd(q, cl, nextHand) ==
  IF cl.dragBlock # << >> /\ cl.ghostPosition # << >>
  THEN IF Throws(cl.dragBlock[1], cl.ghostPosition[1].x, cl.ghostPosition[1].y)
       THEN DropThrows(q, cl)
       ELSE DropPlaces(q, cl, nextHand)
  ELSE DropCancels(q)

\* The blocks that can be pressed at once.
MaxPending == 2

\* A handleStart that does not look at `disabled`.
HandleStart_Enabled ==
  /\ Len(pending) < fingers
  /\ drops < MaxDrops \/ taps < MaxTaps
  /\ \E k \in DOMAIN hand :
       /\ \A i \in DOMAIN pending : pending[i].block.id # hand[k].id
       /\ pending' = Append(pending, [block |-> hand[k], hasMoved |-> FALSE,
                                      view |-> << >>])
  /\ UNCHANGED << grid, score, hand, turn, combo, isGameOver, history,
                  dragBlock, ghostPosition, save, nextId, drops, draws, taps,
                  stampedIds, fingers, coreVars >>

\* Block.handleStart: a press on a block of the hand, ignored when the
\* Block is disabled, that is when the game is over.
HandleStart ==
  /\ ~isGameOver
  /\ Len(pending) < fingers
  /\ drops < MaxDrops \/ taps < MaxTaps
  /\ \E k \in DOMAIN hand :
       /\ \A i \in DOMAIN pending : pending[i].block.id # hand[k].id
       /\ pending' = Append(pending, [block |-> hand[k], hasMoved |-> FALSE,
                                      view |-> << >>])
  /\ UNCHANGED << grid, score, hand, turn, combo, isGameOver, history,
                  dragBlock, ghostPosition, save, nextId, drops, draws, taps,
                  stampedIds, fingers, coreVars >>

\* The handlers the listeners of the i-th block pressed call.
HandlersOf(held, i) == IF held[i].view = << >> THEN Closure ELSE held[i].view[1]

\* Block's moveHandler, for the blocks pressed from the i-th on: the blocks
\* of `crossing` have the pointer farther than DRAG_THRESHOLD from where it
\* was when they were pressed.
RECURSIVE MoveHandlers(_, _, _, _, _)
MoveHandlers(q, held, p, crossing, i) ==
  IF i > Len(held) THEN q
  ELSE LET starts == ~held[i].hasMoved /\ i \in crossing
           moving == held[i].hasMoved \/ starts
           q1 == IF starts THEN HandleDragStart(q, held[i].block) ELSE q
           q2 == IF moving THEN HandleDragMove(q1, HandlersOf(held, i), p) ELSE q1
           q3 == [q2 EXCEPT !.held = Append(@, [held[i] EXCEPT !.hasMoved = moving])]
       IN  MoveHandlers(q3, held, p, crossing, i + 1)

\* A mousemove or touchmove event.
PointerMove ==
  /\ pending # << >>
  /\ \E p \in Hover :
     \E crossing \in SUBSET {i \in DOMAIN pending : ~pending[i].hasMoved} :
       /\ crossing # {} => drops < MaxDrops
       /\ LET q == MoveHandlers(Queue, pending, p, crossing, 1)
          IN  /\ dragBlock' = q.dragBlock
              /\ ghostPosition' = q.ghostPosition
              /\ pending' = q.held
  /\ UNCHANGED << grid, score, hand, turn, combo, isGameOver, history,
                  save, nextId, drops, draws, taps, stampedIds, fingers,
                  coreVars >>

\* Block's endHandler, for the blocks pressed from the i-th on: the end of
\* a drag, or a tap.
RECURSIVE EndHandlers(_, _, _, _)
EndHandlers(q, held, nextHand, i) ==
  IF i > Len(held) THEN q
  ELSE EndHandlers(IF held[i].hasMoved
                   THEN HandleDragEnd(q, HandlersOf(held, i), nextHand)
                   ELSE HandleRotate(q, held[i].block),
                   held, nextHand, i + 1)

\* The session state held when the handlers of an event have run.
SessionOf(q) ==
  [grid |-> q.grid, score |-> q.score, hand |-> q.hand, turn |-> q.turn,
   combo |-> q.combo, isGameOver |-> q.isGameOver, history |-> q.history]

\* The exploration follows an end event that stays within the bounds.
Affordable(q) ==
  /\ q.refills <= 1
  /\ draws + q.refills <= MaxDraws
  /\ taps + q.tapsDone <= MaxTaps
  /\ q.dropsDone > 0 => drops < MaxDrops

\* The hands generateHand can return to the handlers of an end event.
HandsDrawn(q) == IF q.refills > 0 THEN GenerateHand(3, nextId) ELSE {<< >>}

\* The render after the handlers of an end event, and the save effect,
\* which runs when one of the values it depends on has changed.
Rendered(q) ==
  /\ SetSession(SessionOf(q))
  /\ dragBlock' = q.dragBlock
  /\ ghostPosition' = q.ghostPosition
  /\ save' = IF SessionOf(q) = Session THEN save
             ELSE SaveEffect(SessionOf(q), save)
  /\ stampedIds' = stampedIds \o q.stamps
  /\ nextId' = nextId + 3 * q.refills
  /\ draws' = draws + q.refills
  /\ taps' = taps + q.tapsDone
  /\ drops' = IF q.dropsDone > 0 THEN drops + 1 ELSE drops

\* A mouseup or touchend event, followed by the render and the save effect.
PointerEnd ==
  /\ pending # << >>
  /\ Affordable(EndHandlers(Queue, pending, << >>, 1))
  /\ \E nextHand \in HandsDrawn(EndHandlers(Queue, pending, << >>, 1)) :
       Rendered(EndHandlers(Queue, pending, nextHand, 1))
  /\ pending' = << >>
  /\ UNCHANGED << fingers, coreVars >>

Next ==
  \/ StartNewGame
  \/ HandleUndo
  \/ HandleStart
  \/ PointerMove
  \/ PointerEnd

Spec == Init /\ [][Next]_vars

\* A session played on a touch screen, where MaxPending fingers can press
\* blocks at once: a new game, or a game found saved on a crowded board or
\* after a long play.
InitTouch ==
  /\ InitNew \/ InitLoaded(SavedBy(CrowdRuns \cup LongRuns))
  /\ fingers = MaxPending
  /\ draws = 0
  /\ Mounted

SpecTouch == InitTouch /\ [][Next]_vars

(***************************************************************************)
(* placeBlockAndProcess on objects.  A board is an array of row arrays of  *)
(* cell objects: mem.rows maps the reference of a row array to the cell    *)
(* references it holds, mem.cells maps the reference of a cell object to   *)
(* the object, and a board is the array of its row references.  The       *)
(* boards returned are all kept, as the undo history keeps them.           *)
(***************************************************************************)
\* A session makes at most MaxPlacements placements on kept boards.
MaxPlacements == 2

\* The board a board of references denotes.
Deref(m, g) ==
  ArrayOfRows([y \in Idx |-> [x \in Idx |-> m.cells[m.rows[g[y]][x]]]])

\* The objects of board b: rows 1 .. 6, then the cells row by row.
HeapOfBoard(b) ==
  LET first == GRID_SIZE + 1
      cells == [c \in first .. (GRID_SIZE + GRID_SIZE * GRID_SIZE) |->
                  b[(c - first) \div GRID_SIZE][(c - first) % GRID_SIZE]]
  IN  [rows |-> ArrayOfRows([r \in 1 .. GRID_SIZE |->
                   [x \in Idx |-> first + (r - 1) * GRID_SIZE + x]]),
       cells |-> cells @@ cells,
       next |-> first + GRID_SIZE * GRID_SIZE]

BoardRefs == [y \in Idx |-> y + 1]

\* Mutant: the copy is a new outer array over the same row arrays.
HeapCopy_SharesRows(m, g) == [m |-> m, g |-> g]

\* Step 1: currentGrid.map(row => row.map(cell => ({ ...cell }))): a new
\* row array for every row and a new object for every cell.
HeapCopy(m, g) ==
  LET rowRef(y) == m.next + y
      firstCell == m.next + GRID_SIZE
      newRows == [r \in {rowRef(y) : y \in Idx} |->
                    [x \in Idx |-> firstCell + (r - m.next) * GRID_SIZE + x]]
      newCells == [c \in firstCell .. (firstCell + GRID_SIZE * GRID_SIZE - 1) |->
                     m.cells[m.rows[g[(c - firstCell) \div GRID_SIZE]]
                                   [(c - firstCell) % GRID_SIZE]]]
  IN  [m |-> [rows |-> ArrayOfRows(m.rows @@ newRows),
              cells |-> m.cells @@ newCells,
              next |-> firstCell + GRID_SIZE * GRID_SIZE],
       g |-> [y \in Idx |-> rowRef(y)]]

\* newGrid[y][x] = obj: the row array of newGrid is written in place and
\* holds the reference of a new object.
HeapWrite(m, g, x, y, obj) ==
  [rows |-> [m.rows EXCEPT ![g[y]] = [@ EXCEPT ![x] = m.next]],
   cells |-> m.cells @@ (m.next :> obj),
   next |-> m.next + 1]

\* Step 2: the loop over block.cells.
RECURSIVE HeapStampFrom(_, _, _, _, _, _)
HeapStampFrom(m, g, block, targetX, targetY, i) ==
  IF i > Len(block.cells) THEN m
  ELSE LET x == targetX + block.cells[i].x
           y == targetY + block.cells[i].y
           obj == StampCell(m.cells[m.rows[g[y]][x]], block)
       IN  HeapStampFrom(HeapWrite(m, g, x, y, obj), g, block,
                         targetX, targetY, i + 1)

\* Apply updates: updates.forEach, in the order the double loop pushed them.
RECURSIVE HeapApplyUpdates(_, _, _, _)
HeapApplyUpdates(m, g, kind, k) ==
  IF k = GRID_SIZE * GRID_SIZE THEN m
  ELSE LET x == k % GRID_SIZE
           y == k \div GRID_SIZE
       IN  IF kind[y][x] = "keep"
           THEN HeapApplyUpdates(m, g, kind, k + 1)
           ELSE HeapApplyUpdates(
                  HeapWrite(m, g, x, y,
                            ApplyUpdate(m.cells[m.rows[g[y]][x]], kind[y][x])),
                  g, kind, k + 1)

\* placeBlockAndProcess on the objects m, for a placement canPlaceBlock
\* accepts: the objects after the call and the board returned.
HeapPlaceBlockAndProcess(m, currentGrid, block, targetX, targetY) ==
  LET copy == HeapCopy(m, currentGrid)
      m2 == HeapStampFrom(copy.m, copy.g, block, targetX, targetY, 1)
      stamped == Deref(m2, copy.g)
      fullRows == FullRows(stamped)
      fullCols == FullCols(stamped)
      linesCleared == Cardinality(fullRows) + Cardinality(fullCols)
      affectedBlockIds == AffectedBlockIds(stamped, fullRows, fullCols)
      clearedCells == ClearedCells(fullRows, fullCols)
      kind == [y \in Idx |-> [x \in Idx |->
                 UpdateKind(stamped[y][x], <<x, y>> \in clearedCells,
                            affectedBlockIds)]]
      m3 == IF linesCleared > 0 THEN HeapApplyUpdates(m2, copy.g, kind, 0)
            ELSE m2
  IN  [m |-> [rows |-> ArrayOfRows(m3.rows), cells |-> m3.cells,
              next |-> m3.next],
       newGrid |-> copy.g]

\* The boards the placements start from.
HeapBoards == {st.grid : st \in Saves} \cup {createEmptyGrid}

\* mem.grids are the boards kept, the current one last; mem.was[i] is what
\* mem.grids[i] denoted when it was built or returned.
HeapInit ==
  /\ SessionConstructed
  /\ call = << >>
  /\ placeable = "unchecked"
  /\ result = << >>
  /\ \E b \in HeapBoards :
       LET m == HeapOfBoard(b)
       IN  mem = [rows |-> m.rows, cells |-> m.cells, next |-> m.next,
                  grids |-> << BoardRefs >>, was |-> << b >>]

\* One placement, as handleDragEnd makes it: the board before it stays in
\* the history and the board returned becomes the current one.
HeapPlace ==
  /\ Len(mem.grids) <= MaxPlacements
  /\ \E s \in HandShapes, p \in Hover :
       LET block == [id |-> CallId + Len(mem.grids), cells |-> SHAPES[s],
                     color |-> BLOCK_COLORS[1]]
           cur == mem.grids[Len(mem.grids)]
           r == HeapPlaceBlockAndProcess(mem, cur, block, p.x, p.y)
       IN  /\ canPlaceBlock(Deref(mem, cur), block, p.x, p.y)
           /\ mem' = [rows |-> r.m.rows, cells |-> r.m.cells,
                      next |-> r.m.next,
                      grids |-> Append(mem.grids, r.newGrid),
                      was |-> Append(mem.was, Deref(r.m, r.newGrid))]
  /\ UNCHANGED << call, placeable, result, sessionVars >>

SpecHeap == HeapInit /\ [][HeapPlace]_vars

(***************************************************************************)
(* Vocabulary of the properties, stated on the cells directly and not      *)
(* through the operators above.                                            *)
(***************************************************************************)
Applied == result # << >>

Res == result[1]

\* The absolute cells a shape covers at an anchor.
Covered(block, x, y) ==
  {<< x + block.cells[i].x, y + block.cells[i].y >> : i \in DOMAIN block.cells}

\* The board with exactly the shape's cells filled in the shape's color and
\* owned by the shape's id.
StampedBoard(board, block, x, y) ==
  [yy \in Idx |-> [xx \in Idx |->
     IF << xx, yy >> \in Covered(block, x, y)
     THEN [status |-> "filled", color |-> block.color, blockId |-> block.id]
     ELSE board[yy][xx]]]

NonEmpty(cell) == cell.status \in {"filled", "junk"}

LineRows(b) == {yy \in Idx : \A xx \in Idx : NonEmpty(b[yy][xx])}

LineCols(b) == {xx \in Idx : \A yy \in Idx : NonEmpty(b[yy][xx])}

InLine(b, xx, yy) == yy \in LineRows(b) \/ xx \in LineCols(b)

\* The owner of cell (xx, yy) also owns a cell inside a full line.
OwnerHit(b, xx, yy) ==
  \E p \in Idx \X Idx :
    /\ InLine(b, p[1], p[2])
    /\ b[p[2]][p[1]].status = "filled"
    /\ b[p[2]][p[1]].blockId = b[yy][xx].blockId

JunkCells(b) == {p \in Idx \X Idx : b[p[2]][p[1]].status = "junk"}

CallStamped == StampedBoard(call.board, call.block, call.x, call.y)

\* The handlers the end listener of the block pressed first calls: those
\* of the render it was last a part of.
Drop == HandlersOf(pending, 1)

\* A step of the session in which handleDragEnd finds a drag block and a
\* ghost position ...
DropStep ==
  /\ pending # << >>
  /\ pending[1].hasMoved
  /\ Drop.dragBlock # << >>
  /\ Drop.ghostPosition # << >>
  /\ drops' = drops + 1

\* ... and placeBlockAndProcess returns.
PlacementStep == DropStep /\ stampedIds' # stampedIds

\* A step of the session that rotates a block of the hand.
TapStep == taps' = taps + 1

\* The block tapped: pressed, and released before the pointer moved.
Tapped ==
  pending[CHOOSE i \in DOMAIN pending : ~pending[i].hasMoved].block

\* Every cell the drag block covers at the ghost position is on the board
\* and empty, on the board handleDragEnd passes to placeBlockAndProcess.
GhostLegal ==
  \A p \in Covered(Drop.dragBlock[1], Drop.ghostPosition[1].x,
                   Drop.ghostPosition[1].y) :
    /\ p[1] \in Idx
    /\ p[2] \in Idx
    /\ Drop.grid[p[2]][p[1]].status = "empty"

\* The board the session's drop stamps.
DropStamped ==
  StampedBoard(Drop.grid, Drop.dragBlock[1], Drop.ghostPosition[1].x,
               Drop.ghostPosition[1].y)

\* The snapshot the last drop of the session pushed.
LastSnapshot == history[Len(history)]

\* A cell carries an owner exactly when it is filled (holes of a row are
\* not cells).
OwnedIffFilled(b) ==
  \A yy \in DOMAIN b : \A xx \in DOMAIN b[yy] :
    b[yy][xx].status # "hole" =>
      ((b[yy][xx].blockId # NoId) <=> (b[yy][xx].status = "filled"))

\* C1: when a legal placement clears at least one line, each cell of the
\* result follows from the stamped board: a filled cell in a full row or
\* column becomes empty without owner; a filled cell outside every full line
\* whose owner has a cell inside a full line becomes junk without owner;
\* every other cell is unchanged; junkCreated counts the cells turned to junk.
C1_LeftoverRule ==
  (Applied /\ Res.linesCleared >= 1) =>
    LET st == CallStamped
        toJunk == {p \in Idx \X Idx :
                     /\ st[p[2]][p[1]].status = "filled"
                     /\ ~InLine(st, p[1], p[2])
                     /\ OwnerHit(st, p[1], p[2])}
    IN  /\ \A xx \in Idx, yy \in Idx :
             LET was == st[yy][xx]
                 now == Res.newGrid[yy][xx]
             IN  IF was.status = "filled" /\ InLine(st, xx, yy)
                 THEN now.status = "empty" /\ now.blockId = NoId
                 ELSE IF << xx, yy >> \in toJunk
                 THEN now.status = "junk" /\ now.blockId = NoId
                 ELSE now = was
        /\ Res.junkCreated = Cardinality(toJunk)

\* C1 witness: a clearing placement that turns a cell to junk, leaves junk
\* that was there alone and leaves an unaffected shape alone.
C1_Witness ==
  /\ Applied
  /\ Res.linesCleared >= 1
  /\ Res.junkCreated >= 1
  /\ \E p \in JunkCells(call.board) : InLine(CallStamped, p[1], p[2])
  /\ \E p \in Idx \X Idx : Res.newGrid[p[2]][p[1]].status = "filled"

\* C2: a cell that is junk before a placement the session makes under
\* canPlace is junk after it, also inside a cleared row or column, and a
\* rotation leaves the board alone: over placements and rotations the set
\* of junk cells never shrinks.
C2_JunkPermanent ==
  [][((PlacementStep /\ GhostLegal) \/ TapStep) =>
       JunkCells(grid) \subseteq JunkCells(grid')]_vars

\* C2 witness: the session rotated a block and dropped it so that a row
\* holding junk was cleared around the junk, which is still there.
C2_Witness ==
  /\ drops = 1
  /\ taps = 1
  /\ dragBlock = << >>
  /\ history # << >>
  /\ score >= LastSnapshot.score + 100
  /\ \E p \in JunkCells(LastSnapshot.grid) :
       /\ p \in JunkCells(grid)
       /\ \E xx \in Idx :
            /\ LastSnapshot.grid[p[2]][xx].status = "filled"
            /\ grid[p[2]][xx].status = "empty"
       /\ \A xx \in Idx : grid[p[2]][xx].status # "filled"

\* C3: in the board of every state of the session and in every board its
\* history keeps (the boards undo brings back), a cell carries an owner if
\* and only if it is filled; empty and junk cells carry none.
C3_OwnerIffFilled ==
  /\ OwnedIffFilled(grid)
  /\ \A i \in DOMAIN history : OwnedIffFilled(history[i].grid)

\* C3 witness: a drop of the session turned cells to junk beside filled and
\* empty cells, with the board before it kept for undo.
C3_Witness ==
  /\ drops = 1
  /\ dragBlock = << >>
  /\ history # << >>
  /\ JunkCells(grid) \ JunkCells(LastSnapshot.grid) # {}
  /\ \E p \in Idx \X Idx : grid[p[2]][p[1]].status = "filled"
  /\ \E p \in Idx \X Idx : grid[p[2]][p[1]].status = "empty"

\* C4: canPlace is true exactly when every cell anchor+offset lies inside
\* [0,6) on both axes and is empty, for anchors inside and outside the
\* board; the call changes neither the board nor the shape nor the session.
C4_CanPlaceExact ==
  [][(placeable = "unchecked" /\ placeable' # "unchecked") =>
       /\ (placeable' = "yes") <=>
            (\A p \in Covered(call'.block, call'.x, call'.y) :
               /\ p[1] \in Idx
               /\ p[2] \in Idx
               /\ call'.board[p[2]][p[1]].status = "empty")
       /\ call'.board = call.board
       /\ call'.block = call.block
       /\ UNCHANGED << result, mem, sessionVars >>]_vars

\* C4 witness: canPlace refused an anchor whose cells are all on the board
\* because one of them is junk.
C4_Witness ==
  /\ placeable = "no"
  /\ \A p \in Covered(call.block, call.x, call.y) : p[1] \in Idx /\ p[2] \in Idx
  /\ \E p \in Covered(call.block, call.x, call.y) :
       call.board[p[2]][p[1]].status = "junk"
  /\ \A p \in Covered(call.block, call.x, call.y) :
       call.board[p[2]][p[1]].status # "filled"

\* C5: whenever the session's handleDragEnd calls placeBlockAndProcess,
\* canPlace holds for the shape dropped, the ghost position and the board
\* of that moment: every covered cell is on the board and empty.
C5_DropValidated == [][DropStep => GhostLegal]_vars

\* C5 witness: a drop of the session has put a new owner on a cell that was
\* filled already.
C5_Witness ==
  /\ drops = 1
  /\ dragBlock = << >>
  /\ history # << >>
  /\ \E p \in Idx \X Idx :
       /\ LastSnapshot.grid[p[2]][p[1]].status = "filled"
       /\ grid[p[2]][p[1]].status = "filled"
       /\ grid[p[2]][p[1]].blockId # LastSnapshot.grid[p[2]][p[1]].blockId

\* C6: linesCleared is the number of rows plus the number of columns of the
\* stamped board none of whose six cells is empty (junk and filled both
\* count), counted before anything is cleared.
C6_LinesCleared ==
  Applied =>
    Res.linesCleared =
      Cardinality(LineRows(CallStamped)) + Cardinality(LineCols(CallStamped))

\* C6 witness: one placement completes a row and a column and reports 2.
C6_Witness ==
  /\ Applied
  /\ Res.linesCleared = 2
  /\ Cardinality(LineRows(CallStamped)) = 1
  /\ Cardinality(LineCols(CallStamped)) = 1

\* C7: the combo counter after a placement of the session is 0 if the
\* placement turned a cell to junk or completed no line, and the counter
\* before it plus 1 if it completed a line and made no junk; a rotation
\* leaves the counter as it was.
C7_Combo ==
  [][/\ PlacementStep =>
          LET lines == Cardinality(LineRows(DropStamped))
                       + Cardinality(LineCols(DropStamped))
              madeJunk == \E p \in Idx \X Idx :
                            /\ DropStamped[p[2]][p[1]].status = "filled"
                            /\ grid'[p[2]][p[1]].status = "junk"
          IN  combo' = IF madeJunk \/ lines = 0 THEN 0 ELSE combo + 1
     /\ TapStep => combo' = combo]_vars

\* C7 witness: a drop of the session cleared a line without leftover during
\* a streak and the counter went from 1 to 2.
C7_Witness ==
  /\ drops = 1
  /\ dragBlock = << >>
  /\ history # << >>
  /\ LastSnapshot.combo = 1
  /\ combo = 2
  /\ score >= LastSnapshot.score + 250

\* C8: a placement clearing L >= 1 lines scores 100*L, plus 50*L when it
\* made no junk, plus 100*(comboOut-1) when comboOut > 1; a placement
\* clearing nothing scores 10 per cell of the shape.
C8_Points ==
  Applied =>
    LET L == Res.linesCleared IN
    IF L >= 1
    THEN Res.points =
           100 * L
           + (IF Res.junkCreated = 0 THEN 50 * L ELSE 0)
           + (IF Res.newCombo > 1 THEN 100 * (Res.newCombo - 1) ELSE 0)
    ELSE Res.points = 10 * Len(call.block.cells)

\* C8 witness: a clean clear that continues a streak.
C8_Witness ==
  /\ Applied
  /\ Res.linesCleared >= 1
  /\ Res.junkCreated = 0
  /\ Res.newCombo > 1
  /\ Res.points = 150 * Res.linesCleared + 100 * (Res.newCombo - 1)

\* C9: a legal placement completing no line returns the input board with
\* exactly the shape's cells filled in its color and owned by its id,
\* junkCreated = 0, comboOut = 0 whatever comboIn, and 10 points per cell
\* (20 for the horizontal domino on the empty board).
C9_NoClearFrame ==
  (Applied /\ LineRows(CallStamped) = {} /\ LineCols(CallStamped) = {}) =>
    /\ Res.newGrid = CallStamped
    /\ Res.linesCleared = 0
    /\ Res.junkCreated = 0
    /\ Res.newCombo = 0
    /\ Res.points = 10 * Cardinality(Covered(call.block, call.x, call.y))
    /\ (call.board = createEmptyGrid /\ call.block.cells = << C(0,0), C(1,0) >>)
         => Res.points = 20

\* C9 witness: the horizontal domino on the empty board at (0,0), placed
\* during a streak.
C9_Witness ==
  /\ Applied
  /\ call.board = createEmptyGrid
  /\ call.block.cells = << C(0,0), C(1,0) >>
  /\ call.x = 0
  /\ call.y = 0
  /\ call.comboIn > 0
  /\ Res.newCombo = 0

\* Row 0 is non-empty (filled or junk) except cell (5,0).
Row0ButLast(b) ==
  /\ \A xx \in 0 .. 4 : NonEmpty(b[0][xx])
  /\ b[0][5].status = "empty"

\* No shape has a cell in row 0 and a cell in another row.
NoStraddleRow0(b) ==
  \A xx \in Idx, p \in Idx \X Idx :
    (b[0][xx].status = "filled" /\ b[p[2]][p[1]].status = "filled"
       /\ b[p[2]][p[1]].blockId = b[0][xx].blockId) => p[2] = 0

SingleCellAt50 ==
  call.block.cells = << C(0,0) >> /\ call.x = 5 /\ call.y = 0

\* C10 as stated: for every comboIn, with row 0 filled except (5,0), no
\* shape straddling the row and a single cell placed at (5,0), the result
\* has linesCleared = 1, junkCreated = 0, points = 150, comboOut = comboIn+1.
C10_Original ==
  (Applied /\ Row0ButLast(call.board) /\ NoStraddleRow0(call.board)
     /\ SingleCellAt50) =>
    /\ Res.linesCleared = 1
    /\ Res.junkCreated = 0
    /\ Res.points = 150
    /\ Res.newCombo = call.comboIn + 1

\* C10 amended: under the same conditions, and when column 5 is not
\* completed by the same cell, linesCleared = 1, junkCreated = 0,
\* comboOut = comboIn + 1 and points = 150 + 100 * comboIn (150 only for
\* comboIn = 0).
C10_RowClear ==
  (Applied /\ Row0ButLast(call.board) /\ NoStraddleRow0(call.board)
     /\ SingleCellAt50
     /\ \E yy \in 1 .. 5 : call.board[yy][5].status = "empty") =>
    /\ Res.linesCleared = 1
    /\ Res.junkCreated = 0
    /\ Res.points = 150 + 100 * call.comboIn
    /\ Res.newCombo = call.comboIn + 1

\* C10 witness: the row is completed during a streak.
C10_Witness ==
  /\ Applied
  /\ Row0ButLast(call.board)
  /\ NoStraddleRow0(call.board)
  /\ SingleCellAt50
  /\ \E yy \in 1 .. 5 : call.board[yy][5].status = "empty"
  /\ call.comboIn >= 1
  /\ Res.points > 150

\* The cells of the placed shape inside a completed line, and those outside
\* every completed line.
OwnInside ==
  {p \in Covered(call.block, call.x, call.y) : InLine(CallStamped, p[1], p[2])}

OwnOutside ==
  Covered(call.block, call.x, call.y) \ OwnInside

\* The cells of the shapes already on the board that are outside every
\* completed line while their shape has a cell inside one.
OthersLeftover ==
  {p \in (Idx \X Idx) \ Covered(call.block, call.x, call.y) :
     /\ CallStamped[p[2]][p[1]].status = "filled"
     /\ ~InLine(CallStamped, p[1], p[2])
     /\ OwnerHit(CallStamped, p[1], p[2])}

\* The placed shape partly inside a completed line: its inside cells are
\* emptied, its outside cells are junk without owner, and comboOut = 0.
OwnLeftoverRule ==
  (Applied /\ OwnInside # {} /\ OwnOutside # {}) =>
    /\ \A p \in OwnInside : Res.newGrid[p[2]][p[1]].status = "empty"
    /\ \A p \in OwnOutside :
         /\ Res.newGrid[p[2]][p[1]].status = "junk"
         /\ Res.newGrid[p[2]][p[1]].blockId = NoId
    /\ Res.newCombo = 0

\* A tromino with two cells in row 0 and one in row 1 was placed and
\* completes row 0 and nothing else.
LTrominoCompletesRow0 ==
  /\ Applied
  /\ Len(call.block.cells) = 3
  /\ Cardinality({p \in Covered(call.block, call.x, call.y) : p[2] = 0}) = 2
  /\ Cardinality({p \in Covered(call.block, call.x, call.y) : p[2] = 1}) = 1
  /\ LineRows(CallStamped) = {0}
  /\ LineCols(CallStamped) = {}

\* C11 as stated: the leftover rule applies to the placed shape itself with
\* comboOut = 0, and an L-tromino with two cells in row 0 and one in row 1
\* completing only row 0 gives junkCreated = 1.
C11_Original ==
  /\ OwnLeftoverRule
  /\ LTrominoCompletesRow0 => Res.junkCreated = 1

\* C11 amended: the leftover rule applies to the placed shape itself with
\* comboOut = 0; junkCreated counts the shape's outside cells together with
\* the leftover cells of the other shapes hit, so the L-tromino completing
\* only row 0 gives junkCreated = 1 when no other shape is left over.
C11_OwnLeftover ==
  /\ OwnLeftoverRule
  /\ (Applied /\ OwnInside # {} /\ OwnOutside # {}) =>
       Res.junkCreated = Cardinality(OwnOutside) + Cardinality(OthersLeftover)
  /\ (LTrominoCompletesRow0 /\ OthersLeftover = {}) => Res.junkCreated = 1

\* C11 witness: the L-tromino completes row 0 alone during a streak, no
\* other shape is left over, and its cell in row 1 is the one junk cell.
C11_Witness ==
  /\ LTrominoCompletesRow0
  /\ OthersLeftover = {}
  /\ call.comboIn >= 1
  /\ Res.junkCreated = 1
  /\ Res.newCombo = 0
  /\ \E p \in OwnOutside : Res.newGrid[p[2]][p[1]].status = "junk"

\* The references of the rows and of the cells of a board of references.
RowRefs(g) == {g[yy] : yy \in Idx}

CellRefs(g) == {mem.rows[g[yy]][xx] : xx \in Idx, yy \in Idx}

\* C12: placeBlockAndProcess leaves its board argument as it was and
\* returns a board sharing no row array and no cell object with it: every
\* board kept, whatever placements came later, denotes cell for cell what
\* it denoted when it was built, and no two boards kept share a row or a
\* cell.
C12_InputUntouched ==
  mem # << >> =>
    /\ \A i \in DOMAIN mem.grids : Deref(mem, mem.grids[i]) = mem.was[i]
    /\ \A i \in DOMAIN mem.grids : \A j \in DOMAIN mem.grids :
         i # j =>
           /\ RowRefs(mem.grids[i]) \cap RowRefs(mem.grids[j]) = {}
           /\ CellRefs(mem.grids[i]) \cap CellRefs(mem.grids[j]) = {}

\* C12 witness: two placements were made one after the other, the second
\* cleared a line, and the first board kept still holds the cells the
\* clear emptied.
C12_Witness ==
  /\ mem # << >>
  /\ Len(mem.grids) = 3
  /\ \E p \in Idx \X Idx :
       /\ mem.was[2][p[2]][p[1]].status = "filled"
       /\ Deref(mem, mem.grids[2])[p[2]][p[1]].status = "filled"
       /\ Deref(mem, mem.grids[3])[p[2]][p[1]].status = "empty"

(***************************************************************************)
(* C13                                                                     *)
(***************************************************************************)
\* The offsets of a shape, as a set.
CellSet(block) ==
  {<< block.cells[i].x, block.cells[i].y >> : i \in DOMAIN block.cells}

LeastOf(S) == CHOOSE m \in S : \A n \in S : m <= n

\* A set of offsets turned by a quarter and moved back to the corner.
Turned(S) ==
  LET T == {<< 0 - p[2], p[1] >> : p \in S}
      mx == LeastOf({p[1] : p \in T})
      my == LeastOf({p[2] : p \in T})
  IN  {<< p[1] - mx, p[2] - my >> : p \in T}

FourTurns(S) == {S, Turned(S), Turned(Turned(S)), Turned(Turned(Turned(S)))}

\* Every offset of S, moved to the anchor, is an empty cell of the board.
FitsAt(b, S, x, y) ==
  \A p \in S :
    /\ x + p[1] \in Idx
    /\ y + p[2] \in Idx
    /\ b[y + p[2]][x + p[1]].status = "empty"

\* Some shape of the hand, in one of its four rotations, fits at an anchor
\* of the board.
SomeShapeFits(b, h) ==
  \E k \in DOMAIN h :
    \E S \in FourTurns(CellSet(h[k])), x \in Idx, y \in Idx :
      FitsAt(b, S, x, y)

\* C13: canPlaceAny is true for the empty hand; for the hand the session
\* holds, and for each shape of it alone, it is true exactly when some
\* shape, in one of its four rotations, fits at an anchor 0 <= x, y < 6.
C13_CanPlaceAnywhere ==
  /\ canPlaceAny(grid, << >>)
  /\ \A h \in {hand} \cup {<< hand[k] >> : k \in DOMAIN hand} :
       Len(h) > 0 => (canPlaceAny(grid, h) <=> SomeShapeFits(grid, h))

\* A drop left a hand of which no shape fits anywhere.
C13_Witness ==
  /\ drops = 1
  /\ Len(hand) > 0
  /\ ~canPlaceAny(grid, hand)
  /\ ~SomeShapeFits(grid, hand)

Rotate4(b) ==
  rotateBlockDefinition(rotateBlockDefinition(
    rotateBlockDefinition(rotateBlockDefinition(b))))

\* C15: for the shape of the call (a template of the catalog rotated any
\* number of times) four more rotations return the same set of offsets,
\* with as many cells, none merged or duplicated.
C15_FourRotations ==
  LET r == Rotate4(call.block)
  IN  /\ CellSet(r) = CellSet(call.block)
      /\ Len(r.cells) = Len(call.block.cells)
      /\ Cardinality(CellSet(r)) = Len(r.cells)

\* The shape of the call is a rotated one, no template of the catalog.
C15_Witness ==
  /\ \A s \in DOMAIN SHAPES : call.block.cells # SHAPES[s]
  /\ Len(call.block.cells) = 2
  /\ CellSet(Rotate4(call.block)) = CellSet(call.block)

\* The least x offset and the least y offset are 0.
Normalized(cells) ==
  /\ \A i \in DOMAIN cells : cells[i].x >= 0 /\ cells[i].y >= 0
  /\ \E i \in DOMAIN cells : cells[i].x = 0
  /\ \E i \in DOMAIN cells : cells[i].y = 0

\* A shape and its three rotations.
Rotations(b) ==
  {b, rotateBlockDefinition(b),
   rotateBlockDefinition(rotateBlockDefinition(b)),
   rotateBlockDefinition(rotateBlockDefinition(rotateBlockDefinition(b)))}

\* The shapes the session holds: in the hand, in the drag, in the blocks
\* pressed, in the hands of the history's snapshots.
HeldShapes ==
  {hand[k] : k \in DOMAIN hand}
    \cup {dragBlock[k] : k \in DOMAIN dragBlock}
    \cup {pending[k].block : k \in DOMAIN pending}
    \cup UNION {{history[i].hand[k] : k \in DOMAIN history[i].hand} :
                 i \in DOMAIN history}

\* C16: every template of the catalog, every shape generateHand returns
\* and every shape the session holds is normalized, and so is each of them
\* after one, two or three rotations (the fourth gives the first again).
C16_Normalized ==
  /\ \A s \in DOMAIN SHAPES :
       \A r \in Rotations([id |-> 1, cells |-> SHAPES[s],
                           color |-> BLOCK_COLORS[1]]) : Normalized(r.cells)
  /\ \A h \in GenerateHand(3, nextId) :
       \A k \in DOMAIN h : Normalized(h[k].cells)
  /\ \A b \in HeldShapes : \A r \in Rotations(b) : Normalized(r.cells)

\* The hand holds a rotated shape that does not contain the offset (0,0).
C16_Witness ==
  /\ taps = 1
  /\ \E k \in DOMAIN hand :
       /\ hand[k].cells = << C(1, 0), C(0, 1) >>
       /\ Normalized(hand[k].cells)

\* C17: a tap changes the offsets of one shape of the hand, to the offsets
\* turned by a quarter, and keeps its id and color; the other shapes, the
\* hand's order and length, the board, score, combo, turn, game-over flag
\* and history stay as they were.
C17_RotateFrame ==
  [][TapStep =>
       /\ Len(hand') = Len(hand)
       /\ \A j \in DOMAIN hand :
            IF hand[j].id = Tapped.id
            THEN /\ hand'[j].id = hand[j].id
                 /\ hand'[j].color = hand[j].color
                 /\ CellSet(hand'[j]) = Turned(CellSet(hand[j]))
            ELSE hand'[j] = hand[j]
       /\ UNCHANGED << grid, score, combo, turn, isGameOver, history >>]_vars

\* A new game's second shape, a domino, was tapped: it stands upright
\* between two dominoes lying flat.
C17_Witness ==
  /\ taps = 1
  /\ history = << >>
  /\ Len(hand) = 3
  /\ hand[1].cells = << C(0, 0), C(1, 0) >>
  /\ hand[2].cells = << C(0, 0), C(0, 1) >>
  /\ hand[3].cells = << C(0, 0), C(1, 0) >>

(***************************************************************************)
(* C18                                                                     *)
(***************************************************************************)
\* C18: no two placements stamp the same ownerId, whatever draws, drops
\* and undos came before.
C18_FreshOwner ==
  \A i \in DOMAIN stampedIds, j \in DOMAIN stampedIds :
    i # j => stampedIds[i] # stampedIds[j]

\* The session's drop stamped, in cells now on the board, the id an earlier
\* placement had stamped.
C18_Witness ==
  /\ drops = 1
  /\ Len(stampedIds) > 1
  /\ \E i \in 1 .. (Len(stampedIds) - 1) :
       stampedIds[i] = stampedIds[Len(stampedIds)]
  /\ \E y \in Idx, x \in Idx :
       /\ grid[y][x].status = "filled"
       /\ grid[y][x].blockId = stampedIds[Len(stampedIds)]

(***************************************************************************)
(* C19                                                                     *)
(***************************************************************************)
\* The shapes other than the one of the call: any template in any rotation,
\* with an id of its own.
OtherShapes ==
  UNION {Rotations([id |-> CallId + 1, cells |-> SHAPES[s],
                    color |-> BLOCK_COLORS[2]]) : s \in DOMAIN SHAPES}

\* The anchors at which another shape can cover the cells of the call.
NearAnchors ==
  {C(ax, ay) : ax \in (call.x - 1) .. (call.x + 1),
               ay \in (call.y - 1) .. (call.y + 1)}

\* The other shapes positioned so that they cover exactly the cells the
\* call covered.
SameCells ==
  {oa \in OtherShapes \X NearAnchors :
     Covered(oa[1], oa[2].x, oa[2].y) = Covered(call.block, call.x, call.y)}

\* Every cell the call covered lies in a row or column it completed.
WhollyCleared ==
  \A p \in Covered(call.block, call.x, call.y) : InLine(CallStamped, p[1], p[2])

\* C19 as stated: after a placement made under canPlace, canPlace on the
\* returned board is false for any other shape covering the same cells.
C19_Original ==
  Applied =>
    \A oa \in SameCells :
      ~canPlaceBlock(Res.newGrid, oa[1], oa[2].x, oa[2].y)

\* C19 amended: it is false unless every cell of the placed shape lies in a
\* row or column the placement completed; then the cells are empty again
\* and it is true.
C19_Recheck ==
  Applied =>
    /\ SameCells # {}
    /\ \A oa \in SameCells :
         canPlaceBlock(Res.newGrid, oa[1], oa[2].x, oa[2].y) <=> WhollyCleared

\* A placement completed a line with some of its cells and left the others
\* as junk: the same cells cannot be covered again.
C19_Witness ==
  /\ Applied
  /\ \E p \in Covered(call.block, call.x, call.y) :
       InLine(CallStamped, p[1], p[2])
  /\ ~WhollyCleared
  /\ \E oa \in SameCells :
       ~canPlaceBlock(Res.newGrid, oa[1], oa[2].x, oa[2].y)

(***************************************************************************)
(* C20                                                                     *)
(***************************************************************************)
\* The cells that were filled or junk after the stamp and are empty in the
\* returned board.
Emptied ==
  {p \in Idx \X Idx :
     /\ NonEmpty(CallStamped[p[2]][p[1]])
     /\ Res.newGrid[p[2]][p[1]].status = "empty"}

\* The cell count of the completed lines, intersections counted once.
LineCellCount ==
  LET R == Cardinality(LineRows(CallStamped))
      K == Cardinality(LineCols(CallStamped))
  IN  GRID_SIZE * R + GRID_SIZE * K - R * K

\* The junk cells lying in a completed line.
JunkInLines ==
  {p \in JunkCells(CallStamped) : InLine(CallStamped, p[1], p[2])}

\* C20 as stated: the cells emptied by a placement are as many as the cells
\* of the lines it cleared.
C20_Original == Applied => Cardinality(Emptied) = LineCellCount

\* C20 amended: they are as many as the cells of the cleared lines that
\* were not junk; the junk of a cleared line stays.
C20_ClearConservation ==
  Applied =>
    Cardinality(Emptied) = LineCellCount - Cardinality(JunkInLines)

\* A placement completed a line that holds junk.
C20_Witness ==
  /\ Applied
  /\ LineCellCount > 0
  /\ JunkInLines # {}
  /\ Cardinality(Emptied) > 0

(***************************************************************************)
(* C21                                                                     *)
(***************************************************************************)
\* The lines of the board, each the set of its cells.
Lines ==
  {{<< x, y >> : x \in Idx} : y \in Idx} \cup
  {{<< x, y >> : y \in Idx} : x \in Idx}

LineFull(b, L) == \A p \in L : NonEmpty(b[p[2]][p[1]])

LineHasJunk(b, L) == \E p \in L : b[p[2]][p[1]].status = "junk"

\* The board after the play that cleared row 0 with two straddlers and
\* then row 1, which held their junk: the junk of row 1 is still there.
JunkLineCleared == RunScript(Scripts[7], 5).st.grid

\* C21 as stated, for the boards of the play: some board and some legal
\* next placement exist such that a line holding junk counts as full at
\* the placement's scan although the placement stamps no cell of it.
C21_Original ==
  \E b \in Boards : \E o \in OtherShapes, x \in Idx, y \in Idx :
    /\ canPlaceBlock(b, o, x, y)
    /\ \E L \in Lines :
         /\ LineHasJunk(b, L)
         /\ LineFull(StampedBoard(b, o, x, y), L)
         /\ Covered(o, x, y) \cap L = {}

\* C21 amended: at the scan of a placement made under canPlace, a line
\* that holds junk counts as full only if the placement stamps a cell of
\* it; a line cleared before keeps its junk and has an empty cell.
C21_JunkLineNeedsStamp ==
  /\ \A L \in Lines :
       LineHasJunk(call.board, L) => ~LineFull(call.board, L)
  /\ Applied =>
       \A L \in Lines :
         LineHasJunk(CallStamped, L) /\ LineFull(CallStamped, L)
           => Covered(call.block, call.x, call.y) \cap L # {}

\* The placement after the clear of a row that held junk: it stamps no
\* cell of the row, the junk is still in the row, the row is not full.
C21_Witness ==
  /\ Applied
  /\ call.board = JunkLineCleared
  /\ LineHasJunk(CallStamped, {<< x, 1 >> : x \in Idx})
  /\ Covered(call.block, call.x, call.y) \cap {<< x, 1 >> : x \in Idx} = {}
  /\ ~LineFull(CallStamped, {<< x, 1 >> : x \in Idx})

(***************************************************************************)
(* C22                                                                     *)
(***************************************************************************)
\* The sequence h without its k-th element.
Without(h, k) == SubSeq(h, 1, k - 1) \o SubSeq(h, k + 1, Len(h))

\* The hand is a fresh draw of 3 shapes: ids never drawn before.
FreshDraw ==
  /\ Len(hand') = 3
  /\ \A k \in 1 .. 3 : hand'[k].id = nextId + k - 1
  /\ \A k \in 1 .. 3 : \E t \in DOMAIN SHAPES : hand'[k].cells = SHAPES[t]

\* C22: each placement removes exactly the placed shape from the hand and
\* leaves the others in order; if that empties the hand, the hand is a
\* fresh draw of 3 and the turn rises by 1, otherwise the turn is
\* unchanged; the hand of a started game holds 1 to 3 shapes.
C22_HandAfterPlacement ==
  [][/\ PlacementStep =>
          \E k \in DOMAIN hand :
            /\ hand[k].id = Drop.dragBlock[1].id
            /\ IF Len(hand) = 1
               THEN FreshDraw /\ turn' = turn + 1
               ELSE hand' = Without(hand, k) /\ turn' = turn
     /\ Len(hand') \in 1 .. 3]_vars

\* A drop after a new game has left a hand of blocks drawn before the
\* hand the new game drew.
C22_Witness ==
  /\ drops = 1
  /\ draws = 1
  /\ hand # << >>
  /\ \A k \in DOMAIN hand : hand[k].id + 3 < nextId

(***************************************************************************)
(* C23                                                                     *)
(***************************************************************************)
\* A state startNewGame can set: what the load effect sets when it finds
\* no save.
FreshGame(st) ==
  /\ st.grid = createEmptyGrid
  /\ st.score = 0
  /\ st.turn = 1
  /\ st.combo = 0
  /\ ~st.isGameOver
  /\ st.history = << >>
  /\ Len(st.hand) = 3
  /\ \A k \in 1 .. 3 : \E t \in DOMAIN SHAPES : st.hand[k].cells = SHAPES[t]

\* Loading what is stored resumes the session st.
Resumes(stored, st) ==
  IF stored = << >> THEN FreshGame(st)
  ELSE /\ stored[1].grid = st.grid
       /\ stored[1].score = st.score
       /\ stored[1].hand = st.hand
       /\ stored[1].turn = st.turn
       /\ stored[1].isGameOver = st.isGameOver
       /\ stored[1].combo = st.combo

\* A new game, a placement, a rotation or an undo.
SessionAction ==
  \/ draws' # draws
  \/ drops' # drops
  \/ taps' # taps
  \/ Len(history') < Len(history)

\* C23: after every session action, loading what is persisted resumes the
\* board, score, hand, turn, game-over flag and combo of the session; no
\* action leaves a save that describes another state.
C23_SaveResumes == [][SessionAction => Resumes(save', Session')]_vars

\* An undo went back to the empty board and the save still describes the
\* board of the undone placement.
C23_Witness ==
  /\ grid = createEmptyGrid
  /\ history = << >>
  /\ drops = 1
  /\ save # << >>
  /\ save[1].grid # grid
  /\ Len(save[1].history) = 1

(***************************************************************************)
(* C24                                                                     *)
(***************************************************************************)
\* A step of handleUndo that found a snapshot.
UndoStep ==
  /\ Len(history) > 0
  /\ Len(history') = Len(history) - 1
  /\ draws' = draws

\* A step of startNewGame.
NewGameStep == draws' = draws + 1 /\ drops' = drops

\* C24: every placement pushes the snapshot of the state just before it,
\* dropping the oldest when 20 are held; every undo restores board, score,
\* hand, turn, game-over flag and combo of the newest snapshot and removes
\* it; nothing else but a new game changes the history, so that k undos
\* go back exactly k placements; the history never holds more than 20.
C24_UndoInverse ==
  [][/\ PlacementStep =>
          history' = Append(Last19(history), Snapshot(Session))
     /\ UndoStep =>
          /\ Snapshot(Session') = LastSnapshot
          /\ history' = SubSeq(history, 1, Len(history) - 1)
     /\ ~(PlacementStep \/ UndoStep \/ NewGameStep) => history' = history
     /\ Len(history') <= 20]_vars

\* A drop that placed nothing has pushed a snapshot on a full history.
C24_Witness ==
  /\ drops = 1
  /\ dragBlock # << >>
  /\ Len(history) = 20
  /\ LastSnapshot.grid = grid
  /\ LastSnapshot.score = score

(***************************************************************************)
(* C25: the game-over state                                                *)
(***************************************************************************)

\* The snapshots of a history were all taken while the game was going on.
TakenInPlay(h) == \A i \in DOMAIN h : ~h[i].isGameOver

\* C25: while the game-over flag is set only an undo or a new game changes
\* anything: no press, move or release of a pointer changes board, hand,
\* score, combo, turn or history, rotates or places a shape, or clears the
\* flag; no Block is left pressed; every snapshot of the history has the
\* flag false, and an undo clears the flag.
C25_GameOverFrozen ==
  [][/\ TakenInPlay(history) /\ TakenInPlay(history')
     /\ isGameOver => pending = << >>
     /\ isGameOver /\ ~(UndoStep \/ NewGameStep) =>
          /\ UNCHANGED << grid, hand, score, combo, turn, isGameOver,
                          history >>
          /\ taps' = taps
          /\ drops' = drops
     /\ isGameOver /\ UndoStep => ~isGameOver']_vars

\* A drop in this session has ended the game, with two Blocks pressed
\* when the pointer was released.
C25_Witness ==
  /\ isGameOver
  /\ drops = 1
  /\ history # << >>
  /\ ~SomeShapeFits(grid, hand)
  /\ fingers > 1

(***************************************************************************)
(* C26: no full line is left on the board                                  *)
(***************************************************************************)
\* No row and no column of the board has its six cells all non-empty.
NoFullLine(b) == \A L \in Lines : \E p \in L : b[p[2]][p[1]].status = "empty"

\* The lines that are full once the shape of the call is stamped.
StampedFull == {L \in Lines : LineFull(CallStamped, L)}

\* C26: a board reached from the empty board by legal placements has no
\* full row or column, so no line of junk only; a legal placement returns
\* a board without one, and every line it counts in linesCleared holds a
\* cell the placement stamped.
C26_NoFullLine ==
  /\ NoFullLine(call.board)
  /\ \A L \in Lines : \E p \in L : call.board[p[2]][p[1]].status # "junk"
  /\ Applied =>
       /\ NoFullLine(Res.newGrid)
       /\ Res.linesCleared = Cardinality(StampedFull)
       /\ \A L \in StampedFull :
            Covered(call.block, call.x, call.y) \cap L # {}

\* A placement has completed and cleared a line that held junk: the junk
\* is still in the line, the line is not full.
C26_Witness ==
  /\ Applied
  /\ \E L \in StampedFull :
       /\ LineHasJunk(call.board, L)
       /\ LineHasJunk(Res.newGrid, L)
       /\ \E p \in L : Res.newGrid[p[2]][p[1]].status = "empty"

(***************************************************************************)
(* C27: the shapes on the board are whole                                  *)
(***************************************************************************)
\* The filled cells of the board that carry the id.
Owned(b, id) ==
  {p \in Idx \X Idx :
     b[p[2]][p[1]].status = "filled" /\ b[p[2]][p[1]].blockId = id}

\* The ids the filled cells of the board carry.
OwnersOn(b) ==
  {b[p[2]][p[1]].blockId :
     p \in {q \in Idx \X Idx : b[q[2]][q[1]].status = "filled"}}

\* The cells the i-th placement of a script stamps.
StampedBy(script, i) == Covered(Drawn(script, i), script[i].x, script[i].y)

\* The scripted plays, << k, n >> for script k stopped after n placements,
\* each with the board it reaches.
PlayBoards ==
  {<< pl, RunScript(Scripts[pl[1]], pl[2]).st.grid >> :
     pl \in {q \in UNION {{<< k, n >> : n \in 0 .. Len(Scripts[k])} :
                              k \in DOMAIN Scripts} :
               RunScript(Scripts[q[1]], q[2]).ok}}

\* C27: on a board reached by legal placements the filled cells that
\* carry an id are all the cells the placement with that id stamped, and
\* no others; a legal placement leaves every shape whole or takes all its
\* filled cells away, and after a clear no id that had a cell in a cleared
\* line is left on a filled cell.  The board of a call is compared with
\* the plays that reach it once, when the call is set up with the single
\* cell; every board is the board of such a call.
C27_ShapesWhole ==
  /\ placeable = "unchecked" /\ call.block.cells = SHAPES[1] =>
       \A pb \in PlayBoards :
         pb[2] = call.board =>
           /\ OwnersOn(call.board) \subseteq 1 .. pb[1][2]
           /\ \A i \in OwnersOn(call.board) :
                Owned(call.board, i) = StampedBy(Scripts[pb[1][1]], i)
  /\ Applied =>
       /\ OwnersOn(Res.newGrid) \subseteq OwnersOn(call.board) \cup {CallId}
       /\ \A i \in OwnersOn(Res.newGrid) :
            Owned(Res.newGrid, i) =
              IF i = CallId THEN Covered(call.block, call.x, call.y)
              ELSE Owned(call.board, i)
       /\ \A L \in StampedFull : \A p \in L :
            CallStamped[p[2]][p[1]].status = "filled" =>
              Owned(Res.newGrid, CallStamped[p[2]][p[1]].blockId) = {}

\* A placement has cleared a line that a shape of the board straddled:
\* no filled cell carries that shape's id any more, its cell outside the
\* line is junk, and another shape of the board is still whole.
C27_Witness ==
  /\ Applied
  /\ \E i \in OwnersOn(call.board) :
       /\ Owned(Res.newGrid, i) = {}
       /\ \E p \in Owned(call.board, i) :
            Res.newGrid[p[2]][p[1]].status = "junk"
  /\ \E j \in OwnersOn(call.board) :
       /\ Cardinality(Owned(call.board, j)) > 1
       /\ Owned(Res.newGrid, j) = Owned(call.board, j)

(***************************************************************************)
(* C28: move availability and rotation                                     *)
(***************************************************************************)
\* The hand with its k-th shape replaced by one of the shape's rotations.
TurnedHands(h) ==
  UNION {{[h EXCEPT ![k] = r] : r \in Rotations(h[k])} : k \in DOMAIN h}

\* The set of offsets fits at some anchor of the board as it is.
FitsAsHeld(b, S) == \E x \in Idx, y \in Idx : FitsAt(b, S, x, y)

\* C28: canPlaceAny gives the same answer for the hand, and for each shape
\* of it alone, when the shape is replaced by any of its rotations; a tap
\* leaves the board, the answer of canPlaceAny and the game-over flag as
\* they were.
C28_RotationBlind ==
  /\ [](\A h \in {hand} \cup {<< hand[k] >> : k \in DOMAIN hand} :
          \A t \in TurnedHands(h) :
            canPlaceAny(grid, t) <=> canPlaceAny(grid, h))
  /\ [][TapStep =>
          /\ grid' = grid
          /\ canPlaceAny(grid', hand') <=> canPlaceAny(grid, hand)
          /\ \A k \in DOMAIN hand :
               canPlaceAny(grid', << hand'[k] >>)
                 <=> canPlaceAny(grid, << hand[k] >>)
          /\ isGameOver' = isGameOver]_vars

\* A tap has turned a shape on a board where the shape fits as it is now
\* held and does not fit turned by a quarter.
C28_Witness ==
  /\ taps = 1
  /\ \E k \in DOMAIN hand :
       /\ FitsAsHeld(grid, CellSet(hand[k]))
       /\ ~FitsAsHeld(grid, Turned(CellSet(hand[k])))

====
